---- MODULE Spec2Model ----
(***************************************************************************)
(* Streaming temporal-shift blocks of models/layers.py: NAFBlockBBB,       *)
(* NAFBlockBBBHalf and PseudoTemporalConvBlockBBB, their per-frame         *)
(* transforms, and the batch TemporalShift they emulate.                   *)
(*                                                                         *)
(* A feature map is modelled along its channel axis only: a tensor is the  *)
(* sequence of its channels, and the content of one channel is the pair    *)
(* <<frame, channel>> naming the input frame and the channel of that frame *)
(* it was copied from (Zero for a channel of torch.zeros).  Batch, height  *)
(* and width are carried along unchanged by every statement modelled here. *)
(* An optional value (a Python value that may be None) is a sequence of    *)
(* length 0 (None) or 1.                                                   *)
(***************************************************************************)
EXTENDS Integers, Sequences, FiniteSets, TLC

\* ------------------------------------------------------------------ bounds
\* Frames are drawn from NFrames distinct frames.
NFrames == 2
\* Number of calls (forward or reset) made on one block.
MaxCalls == 5
\* Channel counts of the blocks constructed: 1..MaxChannels (fold 0, 1, 2).
MaxChannels == 17

\* fold_div = 8 in every forward of the file.
fold_div == 8

Channels == 1..MaxChannels

\* ------------------------------------------------------------ Python values
None == <<>>
Some(x) == <<x>>
Val(o) == o[1]

Zero == <<0, 0>>

\* torch.zeros((n, fold, h, w)): a tensor of `channels` all-zero channels.
zeros(channels) == [j \in 1..channels |-> Zero]

\* The frame with identity k and `channels` channels.
Frame(k, channels) == [j \in 1..channels |-> <<k, j>>]

Min(a, b) == IF a < b THEN a ELSE b

\* t[:, a:b, :, :] for 0 <= a, 0 <= b: Python's half-open, clipped slice.
Slice(t, a, b) == SubSeq(t, a + 1, Min(b, Len(t)))

\* t[:, a:, :, :]
SliceFrom(t, a) == SubSeq(t, a + 1, Len(t))

\* torch.cat([x, y, z], dim=1)
Cat(x, y, z) == x \o y \o z

\* ------------------------------------------------- per-frame transforms
\* Mutant of ShiftInp: the memory slice is concatenated first.
ShiftInp_memoryFirst(left_fold_2fold, center, right) ==
    LET c == Len(center)
        fold == c \div fold_div
    IN  Cat(left_fold_2fold, Slice(right, 0, fold), SliceFrom(center, 2 * fold))

\* ShiftNAFBlock.forward, lines 156-159: the composite tensor `inp`.
ShiftInp(left_fold_2fold, center, right) ==
    LET c == Len(center)
        fold == c \div fold_div
    IN  Cat(Slice(right, 0, fold), left_fold_2fold, SliceFrom(center, 2 * fold))

\* ShiftNAFBlock.forward: the output is a function of inp alone (norm1,
\* conv1..conv5, sg, sca, beta, gamma are fixed parameters).
ShiftNAFBlock(left_fold_2fold, center, right) ==
    [op |-> "ShiftNAFBlock", inp |-> ShiftInp(left_fold_2fold, center, right)]

\* ------------------------------------------------------- TemporalShift
\* Mutant of TemporalShift: every shift_type is treated as 'toFutureOnly'.
TemporalShift_rightOnly(x, n_segment, shift_type, fold_div_arg, stride) ==
    LET c == Len(x[1])
        fold == c \div fold_div_arg
    IN  [i \in 1..Len(x) |->
            LET t == ((i - 1) % n_segment) + 1
            IN  [ch \in 1..c |->
                    IF ch <= 2 * fold
                    THEN (IF t > stride THEN x[i - stride][ch] ELSE Zero)
                    ELSE x[i][ch]]]

\* TemporalShift(n_segment, shift_type, fold_div, stride).forward(x), stride
\* >= 1: x is the sequence of its nt frames, viewed as n_batch groups of
\* n_segment frames; frame i is frame t = ((i-1) mod n_segment) + 1 of its
\* group.  `'toFutureOnly' in shift_type` is modelled for the two shift types
\* "toFutureOnly" and "TSM" (any name without that substring).
TemporalShift(x, n_segment, shift_type, fold_div_arg, stride) ==
    LET c == Len(x[1])
        fold == c \div fold_div_arg
    IN  [i \in 1..Len(x) |->
            LET t == ((i - 1) % n_segment) + 1
            IN  [ch \in 1..c |->
                    IF shift_type # "toFutureOnly"
                    THEN IF ch <= fold
                         THEN (IF t <= n_segment - stride THEN x[i + stride][ch] ELSE Zero)
                         ELSE IF ch <= 2 * fold
                         THEN (IF t > stride THEN x[i - stride][ch] ELSE Zero)
                         ELSE x[i][ch]
                    ELSE IF ch <= 2 * fold
                         THEN (IF t > stride THEN x[i - stride][ch] ELSE Zero)
                         ELSE x[i][ch]]]

\* ------------------------------------------------------- NAFBlockBBB
\* NAFBlockBBB.__init__: n, c, h, w and fold are not attributes yet.
NAFBlockBBB(c) ==
    [out_channels |-> c, left_fold_2fold |-> None, center |-> None,
     c |-> None, fold |-> None]

\* Mutant of reset: the memory slice is not cleared.
reset_keepsMemory(self) == [self EXCEPT !.center = None]

\* NAFBlockBBB.reset
reset(self) == [self EXCEPT !.left_fold_2fold = None, !.center = None]

\* NAFBlockBBB.forward, lines 190-192: the shape of a real frame is recorded.
setShape(self, input_right) ==
    IF input_right # None
    THEN [self EXCEPT !.c = Some(Len(Val(input_right))),
                      !.fold = Some(Len(Val(input_right)) \div fold_div)]
    ELSE self

\* Mutant of prime: the memory is never zero-initialized.
prime_neverZero(self, input_right) == [self EXCEPT !.center = input_right]

\* Mutant of prime: the memory is zero-initialized on every priming call.
prime_alwaysZero(self, input_right) ==
    LET s == [self EXCEPT !.center = input_right]
    IN  IF input_right # None
        THEN [s EXCEPT !.left_fold_2fold = Some(zeros(Val(s.fold)))]
        ELSE s

\* NAFBlockBBB.forward, lines 195-199 (Case1, center is None): the frame is
\* buffered and the memory zero-initialized if it is None.
prime(self, input_right) ==
    LET s == [self EXCEPT !.center = input_right]
    IN  IF input_right # None /\ s.left_fold_2fold = None
        THEN [s EXCEPT !.left_fold_2fold = Some(zeros(Val(s.fold)))]
        ELSE s

\* Mutant of opArgs: on drain the center is passed as the right tensor.
opArgs_centerAsRight(self, input_right) ==
    IF input_right = None
    THEN <<Val(self.left_fold_2fold), Val(self.center), Val(self.center)>>
    ELSE <<Val(self.left_fold_2fold), Val(self.center), Val(input_right)>>

\* NAFBlockBBB.forward, lines 209 and 213: the arguments self.op is called with.
opArgs(self, input_right) ==
    IF input_right = None
    THEN <<Val(self.left_fold_2fold), Val(self.center), zeros(Val(self.fold))>>
    ELSE <<Val(self.left_fold_2fold), Val(self.center), Val(input_right)>>

\* Mutant of advance: the memory slice is taken from channels [0, fold).
advance_firstFold(self, input_right) ==
    LET s == [self EXCEPT !.left_fold_2fold =
                 Some(Slice(Val(self.center), 0, Val(self.fold)))]
    IN  [s EXCEPT !.center = input_right]

\* Mutant of advance: the memory slice is not updated.
advance_keepsMemory(self, input_right) == [self EXCEPT !.center = input_right]

\* NAFBlockBBB.forward, lines 215-216: the buffers advance.
advance(self, input_right) ==
    LET s == [self EXCEPT !.left_fold_2fold =
                 Some(Slice(Val(self.center), Val(self.fold), 2 * Val(self.fold)))]
    IN  [s EXCEPT !.center = input_right]

\* NAFBlockBBB.forward(input_right, verbose=False): the instance after the
\* call, the value returned, and the arguments of self.op if it was invoked.
forward(self, input_right) ==
    LET s1 == setShape(self, input_right)
    IN  IF s1.center = None
        THEN [self |-> prime(s1, input_right), ret |-> None, op |-> None]
        ELSE LET args == opArgs(s1, input_right)
                 output == ShiftNAFBlock(args[1], args[2], args[3])
             IN  [self |-> advance(s1, input_right), ret |-> Some(output),
                  op |-> Some(args)]

\* ------------------------------------------------------- NAFBlockBBBHalf
\* ShiftNAFBlockHalf.forward, lines 272-285.
ShiftNAFBlockHalf(left_fold_2fold, center, right) ==
    LET c == Len(center)
        fold == c \div fold_div
    IN  [op |-> "ShiftNAFBlockHalf",
         inp |-> Cat(Slice(right, 0, fold), left_fold_2fold, SliceFrom(center, 2 * fold))]

\* NAFBlockBBBHalf.__init__
NAFBlockBBBHalf(c) ==
    [out_channels |-> c, left_fold_2fold |-> None, center |-> None,
     c |-> None, fold |-> None]

\* NAFBlockBBBHalf.reset
resetHalf(self) == [self EXCEPT !.left_fold_2fold = None, !.center = None]

\* NAFBlockBBBHalf.forward(input_right, verbose=False)
forwardHalf(self, input_right) ==
    LET s1 == IF input_right # None
              THEN [self EXCEPT !.c = Some(Len(Val(input_right))),
                                !.fold = Some(Len(Val(input_right)) \div fold_div)]
              ELSE self
    IN  IF s1.center = None
        THEN LET s2 == [s1 EXCEPT !.center = input_right]
                 s3 == IF input_right # None /\ s2.left_fold_2fold = None
                       THEN [s2 EXCEPT !.left_fold_2fold = Some(zeros(Val(s2.fold)))]
                       ELSE s2
             IN  [self |-> s3, ret |-> None, op |-> None]
        ELSE LET right == IF input_right = None
                          THEN zeros(Val(s1.fold))
                          ELSE Val(input_right)
                 args == <<Val(s1.left_fold_2fold), Val(s1.center), right>>
                 output == ShiftNAFBlockHalf(args[1], args[2], args[3])
                 s2 == [s1 EXCEPT !.left_fold_2fold =
                           Some(Slice(Val(s1.center), Val(s1.fold), 2 * Val(s1.fold)))]
                 s3 == [s2 EXCEPT !.center = input_right]
             IN  [self |-> s3, ret |-> Some(output), op |-> Some(args)]

\* ------------------------------------------- PseudoTemporalConvBlockBBB
\* ShiftPseudoTemporalConvBlock.forward, lines 362-371.
ShiftPseudoTemporalConvBlock(left_fold_2fold, center, right) ==
    LET c == Len(center)
        fold == c \div fold_div
    IN  [op |-> "ShiftPseudoTemporalConvBlock",
         inp |-> Cat(Slice(right, 0, fold), left_fold_2fold, SliceFrom(center, 2 * fold))]

\* What evaluating a constructor call gives when __init__ raises: no instance.
Raised(exception) == [raised |-> exception]
IsInstance(x) == "center" \in DOMAIN x

\* PseudoTemporalConvBlockBBB.__init__: its first statement is
\* super(self).__init__(); super() of an instance (not a type) raises
\* TypeError, so the statements after it never run.
PseudoTemporalConvBlockBBB(c) == Raised("TypeError")

\* PseudoTemporalConvBlockBBB.reset
resetPTC(self) == [self EXCEPT !.left_fold_2fold = None, !.center = None]

\* PseudoTemporalConvBlockBBB.forward(input_right, verbose=False)
forwardPTC(self, input_right) ==
    LET s1 == IF input_right # None
              THEN [self EXCEPT !.c = Some(Len(Val(input_right))),
                                !.fold = Some(Len(Val(input_right)) \div fold_div)]
              ELSE self
    IN  IF s1.center = None
        THEN LET s2 == [s1 EXCEPT !.center = input_right]
                 s3 == IF input_right # None /\ s2.left_fold_2fold = None
                       THEN [s2 EXCEPT !.left_fold_2fold = Some(zeros(Val(s2.fold)))]
                       ELSE s2
             IN  [self |-> s3, ret |-> None, op |-> None]
        ELSE LET right == IF input_right = None
                          THEN zeros(Val(s1.fold))
                          ELSE Val(input_right)
                 args == <<Val(s1.left_fold_2fold), Val(s1.center), right>>
                 output == ShiftPseudoTemporalConvBlock(args[1], args[2], args[3])
                 s2 == [s1 EXCEPT !.left_fold_2fold =
                           Some(Slice(Val(s1.center), Val(s1.fold), 2 * Val(s1.fold)))]
                 s3 == [s2 EXCEPT !.center = input_right]
             IN  [self |-> s3, ret |-> Some(output), op |-> Some(args)]

\* ------------------------------------------------------------------ state
VARIABLES
    bbb,      \* the NAFBlockBBB instance
    log,      \* the calls made on bbb, in order, with what each returned
    half,     \* the NAFBlockBBBHalf instance
    logHalf,  \* the calls made on half
    ptc,      \* what PseudoTemporalConvBlockBBB(c) evaluated to
    logPtc,   \* the calls made on ptc
    pc,       \* per thread: the line of NAFBlockBBB.forward it is about to run
    loc,      \* per thread: input_right, output, and how its call ended
    bbb0,     \* bbb as it was when the two concurrent calls were issued
    order,    \* the threads, in the order their calls started
    overlapped \* a call started while the other was in progress

classes == <<half, logHalf, ptc, logPtc>>
conc == <<pc, loc, bbb0, order, overlapped>>
vars == <<bbb, log, half, logHalf, ptc, logPtc, pc, loc, bbb0, order, overlapped>>

Threads == {1, 2}
Other(t) == 3 - t

\* What a caller may pass as input_right: a frame of the block's channel
\* count, or None (the end marker).
Inputs(c) == {Some(Frame(k, c)) : k \in 1..NFrames} \cup {None}

\* One block of each class is constructed with the same channel count.
Init ==
    /\ \E c \in Channels :
          /\ bbb = NAFBlockBBB(c)
          /\ half = NAFBlockBBBHalf(c)
          /\ ptc = PseudoTemporalConvBlockBBB(c)
    /\ log = <<>>
    /\ logHalf = <<>>
    /\ logPtc = <<>>
    /\ pc = [t \in Threads |-> "idle"]
    /\ loc = [t \in Threads |-> [input_right |-> None, op |-> None, output |-> None,
                                 ret |-> None, raised |-> FALSE]]
    /\ bbb0 = bbb
    /\ order = <<>>
    /\ overlapped = FALSE

ForwardEntry(input_right, r) ==
    [call |-> "forward", input_right |-> input_right, ret |-> r.ret, op |-> r.op]
ResetEntry == [call |-> "reset", input_right |-> None, ret |-> None, op |-> None]

\* One call bbb.forward(input_right).
Forward ==
    /\ Len(log) < MaxCalls
    /\ \E input_right \in Inputs(bbb.out_channels) :
          LET r == forward(bbb, input_right)
          IN  /\ bbb' = r.self
              /\ log' = Append(log, ForwardEntry(input_right, r))
    /\ UNCHANGED <<classes, conc>>

\* One call bbb.reset().
Reset ==
    /\ Len(log) < MaxCalls
    /\ bbb' = reset(bbb)
    /\ log' = Append(log, ResetEntry)
    /\ UNCHANGED <<classes, conc>>

Next == Forward \/ Reset

Spec == Init /\ [][Next]_vars

\* ------------------------------------------- the three classes, same calls
\* The same forward(input_right) call is made on every block that exists.
ForwardAll ==
    /\ Len(log) < MaxCalls
    /\ \E input_right \in Inputs(bbb.out_channels) :
          /\ LET r == forward(bbb, input_right)
             IN  /\ bbb' = r.self
                 /\ log' = Append(log, ForwardEntry(input_right, r))
          /\ LET r == forwardHalf(half, input_right)
             IN  /\ half' = r.self
                 /\ logHalf' = Append(logHalf, ForwardEntry(input_right, r))
          /\ IF IsInstance(ptc)
             THEN LET r == forwardPTC(ptc, input_right)
                  IN  /\ ptc' = r.self
                      /\ logPtc' = Append(logPtc, ForwardEntry(input_right, r))
             ELSE UNCHANGED <<ptc, logPtc>>
    /\ UNCHANGED conc

\* The same reset() call is made on every block that exists.
ResetAll ==
    /\ Len(log) < MaxCalls
    /\ bbb' = reset(bbb)
    /\ log' = Append(log, ResetEntry)
    /\ half' = resetHalf(half)
    /\ logHalf' = Append(logHalf, ResetEntry)
    /\ IF IsInstance(ptc)
       THEN /\ ptc' = resetPTC(ptc)
            /\ logPtc' = Append(logPtc, ResetEntry)
       ELSE UNCHANGED <<ptc, logPtc>>
    /\ UNCHANGED conc

NextClasses == ForwardAll \/ ResetAll

SpecClasses == Init /\ [][NextClasses]_vars

\* ----------------------------- two forward calls on one instance, threads
\* NAFBlockBBB.forward run by two threads on the same instance, one statement
\* of the method per step; a statement reads and writes the attributes of
\* self as it finds them.

\* Mutant of shiftMemory: the statement of line 215 is skipped.
shiftMemory_skipped(self) == self

\* Line 215: self.left_fold_2fold = self.center[:, self.fold:2*self.fold, :, :]
shiftMemory(self) ==
    [self EXCEPT !.left_fold_2fold =
        Some(Slice(Val(self.center), Val(self.fold), 2 * Val(self.fold)))]

\* Lines 195 and 216: self.center = input_right
storeCenter(self, input_right) == [self EXCEPT !.center = input_right]

\* Line 199: self.left_fold_2fold = torch.zeros((self.n, self.fold, ...))
zeroMemory(self) == [self EXCEPT !.left_fold_2fold = Some(zeros(Val(self.fold)))]

Idle == \A t \in Threads : pc[t] = "idle"

\* A forward call made and completed before the concurrent calls are issued.
Warmup ==
    /\ Idle
    /\ \E input_right \in Inputs(bbb.out_channels) :
          bbb' = forward(bbb, input_right).self
    /\ UNCHANGED <<log, classes, conc>>

\* Two threads are each handed one forward call on bbb.
Spawn ==
    /\ Idle
    /\ \E i1 \in Inputs(bbb.out_channels) : \E i2 \in Inputs(bbb.out_channels) :
          loc' = [t \in Threads |->
                     [loc[t] EXCEPT !.input_right = IF t = 1 THEN i1 ELSE i2]]
    /\ pc' = [t \in Threads |-> "l190"]
    /\ bbb0' = bbb
    /\ UNCHANGED <<bbb, log, classes, order, overlapped>>

Goto(t, label) == pc' = [pc EXCEPT ![t] = label]

\* The call ends: it returns value, or an exception propagates.
Return(t, value) ==
    /\ loc' = [loc EXCEPT ![t].ret = value]
    /\ Goto(t, "done")
Raise(t) ==
    /\ loc' = [loc EXCEPT ![t].raised = TRUE]
    /\ Goto(t, "done")

\* Lines 190-192: the call starts; the shape of a real frame is recorded.
L190(t) ==
    /\ pc[t] = "l190"
    /\ bbb' = setShape(bbb, loc[t].input_right)
    /\ order' = Append(order, t)
    /\ overlapped' = (overlapped \/ pc[Other(t)] \notin {"l190", "done"})
    /\ Goto(t, "l194")
    /\ UNCHANGED <<log, classes, loc, bbb0>>

\* Lines 194 and 207: if self.center is None ... elif input_right is None
L194(t) ==
    /\ pc[t] = "l194"
    /\ Goto(t, IF bbb.center = None THEN "l195"
               ELSE IF loc[t].input_right = None THEN "l209" ELSE "l213")
    /\ UNCHANGED <<bbb, log, classes, loc, bbb0, order, overlapped>>

\* Lines 195-196, and 205 for the end marker.
L195(t) ==
    /\ pc[t] = "l195"
    /\ bbb' = storeCenter(bbb, loc[t].input_right)
    /\ IF loc[t].input_right # None
       THEN Goto(t, "l197") /\ UNCHANGED loc
       ELSE Return(t, None)
    /\ UNCHANGED <<log, classes, bbb0, order, overlapped>>

\* Line 197: if self.left_fold_2fold is None; otherwise line 205.
L197(t) ==
    /\ pc[t] = "l197"
    /\ IF bbb.left_fold_2fold = None
       THEN Goto(t, "l199") /\ UNCHANGED loc
       ELSE Return(t, None)
    /\ UNCHANGED <<bbb, log, classes, bbb0, order, overlapped>>

\* Lines 199 and 205.
L199(t) ==
    /\ pc[t] = "l199"
    /\ bbb' = zeroMemory(bbb)
    /\ Return(t, None)
    /\ UNCHANGED <<log, classes, bbb0, order, overlapped>>

\* Lines 209 and 213: output = self.op(self.left_fold_2fold, self.center, ...).
\* torch.cat of a None memory, or center.size() of a None center, raises.
L209(t) ==
    /\ pc[t] \in {"l209", "l213"}
    /\ IF bbb.left_fold_2fold = None \/ bbb.center = None
       THEN Raise(t)
       ELSE LET args == opArgs(bbb, IF pc[t] = "l209" THEN None ELSE loc[t].input_right)
            IN  /\ loc' = [loc EXCEPT ![t].op = Some(args),
                                      ![t].output = Some(ShiftNAFBlock(args[1], args[2], args[3]))]
                /\ Goto(t, "l215")
    /\ UNCHANGED <<bbb, log, classes, bbb0, order, overlapped>>

\* Line 215; subscripting a None center raises.
L215(t) ==
    /\ pc[t] = "l215"
    /\ IF bbb.center = None
       THEN Raise(t) /\ UNCHANGED bbb
       ELSE /\ bbb' = shiftMemory(bbb)
            /\ Goto(t, "l216")
            /\ UNCHANGED loc
    /\ UNCHANGED <<log, classes, bbb0, order, overlapped>>

\* Lines 216-217.
L216(t) ==
    /\ pc[t] = "l216"
    /\ bbb' = storeCenter(bbb, loc[t].input_right)
    /\ Return(t, loc[t].output)
    /\ UNCHANGED <<log, classes, bbb0, order, overlapped>>

NextConc ==
    \/ Warmup
    \/ Spawn
    \/ \E t \in Threads :
          L190(t) \/ L194(t) \/ L195(t) \/ L197(t) \/ L199(t) \/ L209(t) \/ L215(t) \/ L216(t)

SpecConc == Init /\ [][NextConc]_vars

\* ------------------------------------------------- reading the call log
IsFrameCall(e) == e.call = "forward" /\ e.input_right # None
IsEndCall(e) == e.call = "forward" /\ e.input_right = None

\* The block is freshly constructed (s = 0) or just reset (call s is a reset).
FreshAt(s) == s = 0 \/ log[s].call = "reset"

\* Calls s+1 .. s+m all feed a real frame.
FramesRun(s, m) == \A i \in 1..m : IsFrameCall(log[s + i])

\* The i-th frame (i = 0, 1, ...) fed after call s.
FrameAfter(s, i) == Val(log[s + i + 1].input_right)

\* The composite tensor of the sliding window (prev, cur, next), channel by
\* channel; prev and next are optional, an absent one counts as zeros.
WindowInp(prev, cur, next) ==
    LET fold == Len(cur) \div fold_div
    IN  [j \in 1..Len(cur) |->
            IF j <= fold THEN (IF next = None THEN Zero ELSE Val(next)[j])
            ELSE IF j <= 2 * fold THEN (IF prev = None THEN Zero ELSE Val(prev)[j])
            ELSE cur[j]]

\* out(fi): the transform output for the window (prev, cur, next).
WindowOut(prev, cur, next) ==
    [op |-> "ShiftNAFBlock", inp |-> WindowInp(prev, cur, next)]

\* The frame before the i-th frame after call s, if any.
PrevFrame(s, i) == IF i = 0 THEN None ELSE Some(FrameAfter(s, i - 1))

\* ------------------------------------------------------------------ C1
\* C1: from a fresh or reset block, frames f0..f(N-1) followed by the end
\* marker return None first and then, one call late, the transform output of
\* each fi computed from the memory slice of f(i-1) (zeros for i = 0), fi as
\* center and the first fold channels of f(i+1) (zeros for the last frame).
C1_OneStepDelay ==
    \A s \in 0..Len(log) : FreshAt(s) =>
        \A m \in 1..(Len(log) - s) : FramesRun(s, m) =>
            /\ log[s + 1].ret = None
            /\ \A i \in 0..(m - 2) :
                  log[s + i + 2].ret =
                      Some(WindowOut(PrevFrame(s, i), FrameAfter(s, i),
                                     Some(FrameAfter(s, i + 1))))
            /\ (s + m + 1 <= Len(log) /\ IsEndCall(log[s + m + 1])) =>
                  log[s + m + 1].ret =
                      Some(WindowOut(PrevFrame(s, m - 1), FrameAfter(s, m - 1), None))

\* [f0, f1, f2, end] fed to a fresh block of at least 8 channels, with
\* f1 different from f0 and f2, has returned [None, out, out, out].
C1_Witness ==
    /\ Len(log) = 4
    /\ bbb.out_channels >= fold_div
    /\ FramesRun(0, 3)
    /\ IsEndCall(log[4])
    /\ FrameAfter(0, 0) # FrameAfter(0, 1)
    /\ FrameAfter(0, 1) # FrameAfter(0, 2)
    /\ log[1].ret = None
    /\ \A i \in 2..4 : log[i].ret # None

\* ------------------------------------------------------------------ C2
RECURSIVE Replay(_, _)
\* The values returned when `calls` (log entries) are made on instance self.
Replay(self, calls) ==
    IF calls = <<>> THEN <<>>
    ELSE LET e == Head(calls)
         IN  IF e.call = "reset"
             THEN <<None>> \o Replay(reset(self), Tail(calls))
             ELSE LET r == forward(self, e.input_right)
                  IN  <<r.ret>> \o Replay(r.self, Tail(calls))

Returned(calls) == [i \in 1..Len(calls) |-> calls[i].ret]

\* C2: reset() leaves center and left_fold_2fold absent, and whatever the
\* history before a reset(), the calls after it return what the same calls
\* return on a freshly constructed block.
C2_ResetNoLeak ==
    \A s \in 1..Len(log) : log[s].call = "reset" =>
        /\ (s = Len(log) => bbb.center = None /\ bbb.left_fold_2fold = None)
        /\ LET after == SubSeq(log, s + 1, Len(log))
           IN  Returned(after) = Replay(NAFBlockBBB(bbb.out_channels), after)

\* A reset() made on a block that held a center and a non-zero memory, then
\* two frames and the end marker.
C2_Witness ==
    /\ Len(log) = 5
    /\ bbb.out_channels >= fold_div
    /\ IsFrameCall(log[1])
    /\ log[2].call = "reset"
    /\ FramesRun(2, 2)
    /\ IsEndCall(log[5])
    /\ log[5].ret # None

\* ------------------------------------------------- one call, as a step
\* The step is one more call on bbb; NewCall is its log entry.
Called == Len(log') = Len(log) + 1
NewCall == log'[Len(log')]

\* center present, end marker passed.
DrainStep == Called /\ bbb.center # None /\ IsEndCall(NewCall)
\* center absent, real frame passed.
PrimingStep == Called /\ bbb.center = None /\ IsFrameCall(NewCall)
\* center present, real frame passed.
SteadyStep == Called /\ bbb.center # None /\ IsFrameCall(NewCall)

\* The composite tensor assembled from a memory slice, a center and a right
\* tensor, channel by channel (0-based channel j - 1).
Assembled(memory, center, right) ==
    LET fold == Len(center) \div fold_div
    IN  [j \in 1..Len(center) |->
            IF j <= fold THEN right[j]
            ELSE IF j <= 2 * fold THEN memory[j - fold]
            ELSE center[j]]

\* Channels [fold, 2*fold) of tensor t, fold = channels // 8.
MiddleFold(t) ==
    LET fold == Len(t) \div fold_div
    IN  [j \in 1..fold |-> t[fold + j]]

AllZero(t) == \A j \in 1..Len(t) : t[j] = Zero

\* ------------------------------------------------------------------ C3
\* C3 as stated: a drain call runs the transform with zeros in place of the
\* right-hand slice, returns that output, and leaves center and
\* left_fold_2fold as they were before the call.
C3_DrainKeepsBuffers ==
    [][DrainStep =>
        /\ NewCall.op # None
        /\ AllZero(Val(NewCall.op)[3])
        /\ NewCall.ret = Some([op |-> "ShiftNAFBlock",
                               inp |-> Assembled(Val(bbb.left_fold_2fold), Val(bbb.center),
                                                 Val(NewCall.op)[3])])
        /\ bbb'.center = bbb.center
        /\ bbb'.left_fold_2fold = bbb.left_fold_2fold]_vars

\* C3 amended: a drain call runs the transform with zeros in place of the
\* right-hand slice and returns that output, and it advances the buffers:
\* afterwards center is absent and left_fold_2fold is the channel slice
\* [fold, 2*fold) of the center held at call start.
C3_DrainAdvances ==
    [][DrainStep =>
        /\ NewCall.op # None
        /\ Val(NewCall.op)[1] = Val(bbb.left_fold_2fold)
        /\ Val(NewCall.op)[2] = Val(bbb.center)
        /\ Len(Val(NewCall.op)[3]) = Len(Val(bbb.center)) \div fold_div
        /\ AllZero(Val(NewCall.op)[3])
        /\ NewCall.ret = Some([op |-> "ShiftNAFBlock",
                               inp |-> Assembled(Val(bbb.left_fold_2fold), Val(bbb.center),
                                                 Val(NewCall.op)[3])])
        /\ bbb'.center = None
        /\ bbb'.left_fold_2fold = Some(MiddleFold(Val(bbb.center)))]_vars

\* [f0, f1, end] on a block of at least 8 channels, f1 different from f0:
\* the drain has returned out(f1) and replaced the memory slice of f0.
C3_Witness ==
    /\ Len(log) = 3
    /\ bbb.out_channels >= fold_div
    /\ FramesRun(0, 2)
    /\ FrameAfter(0, 0) # FrameAfter(0, 1)
    /\ IsEndCall(log[3])
    /\ log[3].ret # None
    /\ bbb.center = None
    /\ bbb.left_fold_2fold = Some(MiddleFold(FrameAfter(0, 1)))

\* ------------------------------------------------------------------ C5
\* C5: a priming call (center absent, real frame) stores the frame as center,
\* sets left_fold_2fold to fold = channels // 8 zero channels only if it was
\* absent and otherwise leaves it, does not invoke the transform, and
\* returns None.
C5_Priming ==
    [][PrimingStep =>
        /\ bbb'.center = NewCall.input_right
        /\ bbb'.left_fold_2fold =
              IF bbb.left_fold_2fold = None
              THEN Some([j \in 1..(Len(Val(NewCall.input_right)) \div fold_div) |-> Zero])
              ELSE bbb.left_fold_2fold
        /\ NewCall.op = None
        /\ NewCall.ret = None]_vars

\* A priming call made after a drain: the memory slice of the drained frame
\* is still there.
C5_Witness ==
    /\ Len(log) = 3
    /\ bbb.out_channels >= fold_div
    /\ IsFrameCall(log[1])
    /\ IsEndCall(log[2])
    /\ IsFrameCall(log[3])
    /\ log[3].ret = None
    /\ bbb.center = log[3].input_right
    /\ bbb.left_fold_2fold = Some(MiddleFold(FrameAfter(0, 0)))

\* ------------------------------------------------------------------ C6
\* C6: a steady-state call (center present, real frame) runs the transform
\* on (left_fold_2fold, center, input_right) as they were at call start and
\* returns that output; afterwards left_fold_2fold is the channel slice
\* [fold, 2*fold) of the center held at call start and center is the
\* incoming frame.
C6_Steady ==
    [][SteadyStep =>
        /\ NewCall.op = Some(<<Val(bbb.left_fold_2fold), Val(bbb.center),
                               Val(NewCall.input_right)>>)
        /\ NewCall.ret = Some([op |-> "ShiftNAFBlock",
                               inp |-> Assembled(Val(bbb.left_fold_2fold), Val(bbb.center),
                                                 Val(NewCall.input_right))])
        /\ bbb'.left_fold_2fold = Some(MiddleFold(Val(bbb.center)))
        /\ bbb'.center = NewCall.input_right]_vars

\* [f0, f1, f2] with f1 different from f0 and f2: the third call is a
\* steady-state call made with a non-zero memory.
C6_Witness ==
    /\ Len(log) = 3
    /\ bbb.out_channels >= fold_div
    /\ FramesRun(0, 3)
    /\ FrameAfter(0, 0) # FrameAfter(0, 1)
    /\ FrameAfter(0, 1) # FrameAfter(0, 2)
    /\ log[3].ret # None
    /\ bbb.center = log[3].input_right
    /\ bbb.left_fold_2fold = Some(MiddleFold(FrameAfter(0, 1)))

\* ------------------------------------------------------------------ C4
\* Call i invoked the transform on a center that was primed by call i - 1,
\* the first frame fed after the drain at call d, with only end-marker calls
\* (and no reset) between the drain and the priming call.
PrimedAfterDrain(d, i) ==
    /\ 1 <= d /\ d < i - 1 /\ i <= Len(log)
    /\ IsEndCall(log[d]) /\ log[d].op # None
    /\ \A k \in (d + 1)..(i - 2) : IsEndCall(log[k])
    /\ IsFrameCall(log[i - 1]) /\ log[i - 1].ret = None
    /\ log[i].op # None

\* What a fresh block returns for center g0 followed by the call e.
FreshOut(g0, e) ==
    WindowOut(None, g0, e.input_right)

\* The output for g0 is not the fresh block's, and its composite holds the
\* memory slice of the frame drained at call d.
DependsOnDrained(d, i) ==
    /\ Val(log[i].op)[1] = MiddleFold(Val(log[d].op)[2])
    /\ \E j \in 1..Len(Val(log[i].ret).inp) :
          /\ Val(log[i].ret).inp[j] = Val(log[d].op)[2][j]
          /\ Val(log[i].ret).inp[j] # FreshOut(Val(log[i - 1].input_right), log[i]).inp[j]
    /\ log[i].ret # Some(FreshOut(Val(log[i - 1].input_right), log[i]))

\* C4 as stated: a sequence g0, g1, ... fed after a drain without reset()
\* keeps the memory slice of the previous sequence, so the output for g0
\* depends on a frame of the previous sequence and is not a fresh block's.
C4_StaleMemoryAlways ==
    \A d \in 1..Len(log) : \A i \in 1..Len(log) :
        PrimedAfterDrain(d, i) => DependsOnDrained(d, i)

\* C4 amended: the same, for blocks of at least 8 channels (fold >= 1); with
\* fewer channels the memory slice has no channel and the output for g0 is
\* that of a fresh block.
C4_StaleMemory ==
    \A d \in 1..Len(log) : \A i \in 1..Len(log) :
        PrimedAfterDrain(d, i) =>
            IF bbb.out_channels >= fold_div
            THEN DependsOnDrained(d, i)
            ELSE log[i].ret = Some(FreshOut(Val(log[i - 1].input_right), log[i]))

\* [f0, end, g0, g1] without reset on a block of at least 8 channels.
C4_Witness ==
    /\ Len(log) = 4
    /\ bbb.out_channels >= fold_div
    /\ PrimedAfterDrain(2, 4)
    /\ IsFrameCall(log[4])
    /\ DependsOnDrained(2, 4)

\* ------------------------------------------------------------------ C7
\* The frame fed before the center of call i (the center is the frame of call
\* i - 1): the latest frame fed before call i - 1 with no reset in between,
\* if any.
FrameBeforeCenter(i) ==
    LET P == {p \in 1..(i - 2) : IsFrameCall(log[p]) \/ log[p].call = "reset"}
    IN  IF P = {} THEN None
        ELSE LET q == CHOOSE p \in P : \A r \in P : r <= p
             IN  IF log[q].call = "reset" THEN None ELSE log[q].input_right

\* C7: the composite fed to the transform has as many channels as the
\* center and, with fold = channels // 8, takes channels [0, fold) from the
\* right frame's [0, fold), channels [fold, 2*fold) from the memory slice,
\* which holds the previous frame's channels [fold, 2*fold) (zeros when no
\* frame precedes), and channels [2*fold, channels) from the center's, for
\* every channel count.
C7_Composite ==
    \A i \in 1..Len(log) : log[i].op # None =>
        LET memory == Val(log[i].op)[1]
            center == Val(log[i].op)[2]
            right == Val(log[i].op)[3]
            inp == Val(log[i].ret).inp
            c == Len(center)
            fold == c \div fold_div
            prev == FrameBeforeCenter(i)
        IN  /\ c = bbb.out_channels
            /\ Len(inp) = c
            /\ Len(memory) = fold
            /\ \A j \in 1..c :
                  /\ j <= fold => inp[j] = right[j]
                  /\ (fold < j /\ j <= 2 * fold) =>
                        /\ inp[j] = memory[j - fold]
                        /\ inp[j] = IF prev = None THEN Zero ELSE Val(prev)[j]
                  /\ 2 * fold < j => inp[j] = center[j]

\* A transform call on a block whose channel count is above 8 and not a
\* multiple of 8, with a real previous, center and right frame.
C7_Witness ==
    /\ Len(log) = 3
    /\ bbb.out_channels > fold_div
    /\ bbb.out_channels % fold_div # 0
    /\ FramesRun(0, 3)
    /\ FrameAfter(0, 0) # FrameAfter(0, 1)
    /\ log[3].op # None
    /\ Len(Val(log[3].ret).inp) = bbb.out_channels

\* A transform call on a block of fewer than 8 channels (fold = 0): the
\* composite is the center.
C7_WitnessFoldZero ==
    /\ Len(log) = 2
    /\ bbb.out_channels < fold_div
    /\ FramesRun(0, 2)
    /\ log[2].op # None
    /\ Val(log[2].ret).inp = FrameAfter(0, 0)

\* ------------------------------------------------------------------ C10
\* The frames f0..f(m-1) fed after call s, and the composites the transform
\* was called with by the m calls that follow the priming call.
FramesFed(s, m) == [i \in 1..m |-> FrameAfter(s, i - 1)]
Composites(s, m) == [i \in 1..m |-> Val(log[s + i + 1].ret).inp]

\* C10: for T >= 1 frames fed to a fresh or reset block and then the end
\* marker, the composites passed to the transform are, frame by frame, the
\* output of TemporalShift with n_segment = T, fold_div = 8, stride = 1 and a
\* bidirectional shift type on the same frames.
C10_EmulatesTemporalShift ==
    \A s \in 0..Len(log) : FreshAt(s) =>
        \A m \in 1..(Len(log) - s - 1) :
            (FramesRun(s, m) /\ IsEndCall(log[s + m + 1])) =>
                Composites(s, m) = TemporalShift(FramesFed(s, m), m, "TSM", fold_div, 1)

\* Three frames and the end marker on a block of at least 8 channels.
C10_Witness ==
    /\ Len(log) = 4
    /\ bbb.out_channels >= fold_div
    /\ FramesRun(0, 3)
    /\ FrameAfter(0, 0) # FrameAfter(0, 1)
    /\ IsEndCall(log[4])
    /\ Composites(0, 3) = TemporalShift(FramesFed(0, 3), 3, "TSM", fold_div, 1)

\* ------------------------------------------------------------------ C8
\* The buffers of a block, if the block exists.
Buffers(x) == IF IsInstance(x) THEN Some(<<x.center, x.left_fold_2fold>>) ELSE None

\* Per call: the call, whether an output was produced, and the (memory,
\* center, right) arguments of the transform.
Pattern(l) ==
    [i \in 1..Len(l) |->
        [call |-> l[i].call, input_right |-> l[i].input_right,
         produced |-> l[i].ret # None, op |-> l[i].op]]

\* C8: driven by the same reset() and forward calls, NAFBlockBBB,
\* NAFBlockBBBHalf and PseudoTemporalConvBlockBBB hold the same center and
\* left_fold_2fold, return absent or produced outputs at the same calls and
\* invoke their transform with the same (memory, center, right) arguments.
C8_SameStateMachine ==
    Len(log) >= 1 =>
        /\ Buffers(half) = Buffers(bbb)
        /\ Pattern(logHalf) = Pattern(log)
        /\ Buffers(ptc) = Buffers(bbb)
        /\ Pattern(logPtc) = Pattern(log)

\* The part of C8 about NAFBlockBBB and NAFBlockBBBHalf alone.
C8_HalfAgrees ==
    /\ Buffers(half) = Buffers(bbb)
    /\ Pattern(logHalf) = Pattern(log)

\* ------------------------------------------------------------------ C9
Finished == \A t \in Threads : pc[t] = "done"

\* What the two calls returned (or that they raised) and the final buffers.
Outcome ==
    <<[raised |-> loc[1].raised, ret |-> loc[1].ret],
      [raised |-> loc[2].raised, ret |-> loc[2].ret],
      bbb.center, bbb.left_fold_2fold>>

\* The same for the two calls made one after the other on bbb0, thread a's
\* first.
SerialOutcome(a) ==
    LET ra == forward(bbb0, loc[a].input_right)
        rb == forward(ra.self, loc[Other(a)].input_right)
        res == [t \in Threads |-> [raised |-> FALSE,
                                   ret |-> IF t = a THEN ra.ret ELSE rb.ret]]
    IN  <<res[1], res[2], rb.self.center, rb.self.left_fold_2fold>>

Serializable == Outcome \in {SerialOutcome(1), SerialOutcome(2)}

\* C9: two forward calls on one instance are not safe to run concurrently.
\* Run one after the other they give the serial outcome of that order; an
\* outcome that no serial order gives arises only from interleaved calls
\* (and C9_Witness is such an outcome).
C9_SerialUnlessInterleaved ==
    Finished =>
        /\ ~overlapped => Outcome = SerialOutcome(order[1])
        /\ ~Serializable => overlapped

\* Two interleaved calls have returned, neither raised, both ran the
\* transform with the same center frame, and the returned outputs and final
\* buffers are those of no serial order of the two calls.
C9_Witness ==
    /\ Finished
    /\ bbb.out_channels >= fold_div
    /\ ~Serializable
    /\ \A t \in Threads : ~loc[t].raised /\ loc[t].op # None
    /\ Val(loc[1].op)[2] = Val(loc[2].op)[2]

\* ------------------------------------------------------------------ C11
\* center absent, end marker passed.
IdleEndStep == Called /\ bbb.center = None /\ IsEndCall(NewCall)

\* center present implies left_fold_2fold present.
MemoryWithCenter(self) == self.center # None => self.left_fold_2fold # None

\* C11: through every reset() and forward call (verbose = False), a present
\* center comes with a present left_fold_2fold (both are absent at
\* construction, and it holds after every step); a call that invokes the transform found both
\* present and passed them on; and an end-marker call on a block whose center
\* is absent returns None and leaves both buffers as they were.
C11_MemoryWithCenter ==
    [][/\ MemoryWithCenter(bbb')
       /\ (Called /\ NewCall.op # None) =>
             /\ bbb.center # None
             /\ bbb.left_fold_2fold # None
             /\ Val(NewCall.op)[1] = Val(bbb.left_fold_2fold)
             /\ Val(NewCall.op)[2] = Val(bbb.center)
       /\ (Called /\ NewCall.call = "forward" /\ bbb.center # None) => NewCall.op # None
       /\ IdleEndStep =>
             /\ NewCall.ret = None
             /\ NewCall.op = None
             /\ bbb'.center = bbb.center
             /\ bbb'.left_fold_2fold = bbb.left_fold_2fold]_vars

\* [f0, f1, end, end] on a block of at least 8 channels: the transform ran
\* twice, then the second end marker found the center absent, returned None
\* and left the memory slice of f1 in place.
C11_Witness ==
    /\ Len(log) = 4
    /\ bbb.out_channels >= fold_div
    /\ FramesRun(0, 2)
    /\ FrameAfter(0, 0) # FrameAfter(0, 1)
    /\ IsEndCall(log[3]) /\ log[3].op # None
    /\ IsEndCall(log[4]) /\ log[4].ret = None /\ log[4].op = None
    /\ bbb.center = None
    /\ bbb.left_fold_2fold = Some(MiddleFold(FrameAfter(0, 1)))

====
